---- MODULE Spec2Model ----
(***************************************************************************)
(* ts-requiem-api: the leaderboard record store (src/src/store.js) and the *)
(* request handlers that mutate and query it (src/src/index.js).           *)
(*                                                                         *)
(* JavaScript values are encoded as follows.                               *)
(*   - a number is an integer; NaN and null are the reserved integers NaN  *)
(*     and null, which StrictEq and Less treat as JavaScript does;         *)
(*   - a string a handler converts or concatenates (a multipart numeric    *)
(*     field, a digest, a blob locator) is a sequence of one-character     *)
(*     strings; a null locator or digest is nullStr;                       *)
(*   - an opaque string (driver id, display name) is a TLA+ string.        *)
(***************************************************************************)
EXTENDS Integers, Sequences, FiniteSets, TLC

VARIABLES
    records,    \* store.js `records`: the in-memory collection
    file,       \* the content of data/records.json
    r2Bucket,   \* objects of the R2 bucket: set of [key, body]
    localDir,   \* files of data/ghosts: set of [key, body]
    r2Enabled,  \* index.js R2_ENABLED, fixed at startup
    pending,    \* POST /ghost activations suspended at `await s3.send`
    now,        \* the clock read by `new Date()`
    saveCalls,  \* number of saveRecords() invocations so far
    last,       \* the request and reply of the handler the last step completed
    booted,     \* store.js has been evaluated: `records = loadRecords()` has run
    brokenFiles \* the contents of the data/records.broken.<time>.json files

vars == <<records, file, r2Bucket, localDir, r2Enabled, pending, now, saveCalls, last,
          booted, brokenFiles>>

-----------------------------------------------------------------------------
(* Bounds and inputs *)

\* Handlers are accepted while the clock, plus one tick reserved for every
\* suspended upload, is below MaxClock.
MaxClock == 2

Drivers == {"A", "B"}

Combos ==
    { [car |-> 1, track |-> 2, layout |-> 0, condition |-> 0, weather |-> 0],
      [car |-> 1, track |-> 1, layout |-> 0, condition |-> 0, weather |-> 0] }

\* What a submission offers for its key: a slower lap and a faster one.
Candidates == { [timing |-> 2, name |-> "n1", ghostLength |-> 10],
                [timing |-> 1, name |-> "n2", ghostLength |-> 20] }

\* The category fields of a multipart upload arrive as strings.
GhostCombos ==
    { [car |-> <<"1">>, track |-> <<" ", "2">>, layout |-> <<>>,
       condition |-> <<"0">>, weather |-> <<"0", "0">>],
      [car |-> <<"1">>, track |-> <<"k">>, layout |-> <<"0">>,
       condition |-> <<"0">>, weather |-> <<"0">>] }

\* The timing field of an upload: a number, and text that is not one.
GhostTimings == { <<"2">>, <<"k">> }

\* An upload: the bytes and the digest the client declares for them, the
\* first in upper case; Mismatched declares the digest of other bytes.
Uploads == { [ghost |-> <<10>>, sha256 |-> <<"B", "F">>],
             [ghost |-> <<10, 11>>, sha256 |-> <<"4", "a">>] }

Mismatched == [ghost |-> <<10>>, sha256 |-> <<"4", "a">>]

-----------------------------------------------------------------------------
(* JavaScript values *)

NaN == -3
null == -2
nullStr == <<>>

\* a === b on numbers
StrictEq(a, b) == a # NaN /\ b # NaN /\ a = b

\* a < b on numbers
Less(a, b) == a # NaN /\ b # NaN /\ a < b

DigitChars == {"0", "1", "2", "3", "4", "5", "6", "7", "8", "9"}

DigitVal(c) ==
    CASE c = "0" -> 0 [] c = "1" -> 1 [] c = "2" -> 2 [] c = "3" -> 3
      [] c = "4" -> 4 [] c = "5" -> 5 [] c = "6" -> 6 [] c = "7" -> 7
      [] c = "8" -> 8 [] c = "9" -> 9

RECURSIVE TrimStart(_)
TrimStart(s) == IF s # <<>> /\ Head(s) = " " THEN TrimStart(Tail(s)) ELSE s

RECURSIVE TrimEnd(_)
TrimEnd(s) ==
    IF s # <<>> /\ s[Len(s)] = " " THEN TrimEnd(SubSeq(s, 1, Len(s) - 1)) ELSE s

RECURSIVE Decimal(_)
Decimal(s) ==
    IF s = <<>> THEN 0
    ELSE 10 * Decimal(SubSeq(s, 1, Len(s) - 1)) + DigitVal(s[Len(s)])

Digits(t) == t # <<>> /\ \A i \in 1..Len(t) : t[i] \in DigitChars

\* Number(s) for a string over the digits, the space, the minus sign and the
\* letter "k": surrounding white space is dropped, the empty string is 0, a
\* run of digits is its decimal value, negated after a minus sign, and
\* anything else is NaN.  (The only negative number the inputs hold is -1,
\* which keeps the results apart from the reserved integers.)
Number(s) ==
    LET t == TrimEnd(TrimStart(s))
    IN  IF t = <<>> THEN 0
        ELSE IF Digits(t) THEN Decimal(t)
        ELSE IF Head(t) = "-" /\ Digits(Tail(t)) THEN 0 - Decimal(Tail(t))
        ELSE NaN

LowerChar(c) ==
    CASE c = "A" -> "a" [] c = "B" -> "b" [] c = "C" -> "c"
      [] c = "D" -> "d" [] c = "E" -> "e" [] c = "F" -> "f"
      [] OTHER -> c

\* String.prototype.toLowerCase on a string of hexadecimal characters
toLowerCase(s) == [i \in 1..Len(s) |-> LowerChar(s[i])]

HexChars == <<"0", "1", "2", "3", "4", "5", "6", "7", "8", "9",
              "a", "b", "c", "d", "e", "f">>

RECURSIVE ByteSum(_)
ByteSum(b) == IF b = <<>> THEN 171 ELSE (31 * ByteSum(Tail(b)) + Head(b)) % 256

\* crypto.createHash("sha256").update(b).digest("hex"): a lowercase
\* hexadecimal digest of the bytes, here one byte wide, injective on the bytes of Uploads.
Sha256Hex(b) ==
    LET h == ByteSum(b) IN <<HexChars[(h \div 16) + 1], HexChars[(h % 16) + 1]>>

-----------------------------------------------------------------------------
(* src/src/store.js *)

NumericFields == {"car", "track", "layout", "condition", "weather", "timing", "ghostLength"}

\* JSON.stringify(records, null, 2): a NaN is written as null.
JSONstringify(recs) ==
    [i \in 1..Len(recs) |->
        [k \in DOMAIN recs[i] |->
            IF k \in NumericFields /\ recs[i][k] = NaN THEN null ELSE recs[i][k]]]

\* fs.writeFileSync opens the file for writing, which empties it, and writes
\* the text; a write that fails leaves a prefix of the text and throws.
FileOutcomes == {"ok", "partial"}

saveRecords_Swallow(a, io) ==
    [a EXCEPT !.saveCalls = @ + 1,
              !.trace = Append(@, "save"),
              !.file = IF io = "ok"
                       THEN [kind |-> "array", recs |-> JSONstringify(a.records)]
                       ELSE [kind |-> "invalid", recs |-> <<>>]]

\* An activation `a` is one run of a handler: the part of the state it
\* reads and writes, its reply so far and the trace of its effects.
saveRecords(a, io) ==
    [a EXCEPT !.saveCalls = @ + 1,
              !.trace = Append(@, "save"),
              !.thrown = io # "ok",
              !.file = IF io = "ok"
                       THEN [kind |-> "array", recs |-> JSONstringify(a.records)]
                       ELSE [kind |-> "invalid", recs |-> <<>>]]

\* The content of records.json is [kind, recs]: kind "array" is the JSON text
\* of the array recs; "invalid" is text JSON.parse rejects (recs tells one
\* such text from another); "object" is JSON text of a value that is not an
\* array; "blank" is white space only; "empty" is no text; "missing" is no file.
EmptyDocument == [kind |-> "array", recs |-> <<>>]

RenameOutcomes == {"ok", "rejected"}

\* fs.writeFileSync(RECORDS_FILE, "[]", "utf8")
WriteEmpty(a, io) ==
    IF io = "ok" THEN [a EXCEPT !.file = EmptyDocument, !.trace = Append(@, "write")]
    ELSE [a EXCEPT !.file = [kind |-> "invalid", recs |-> <<>>],
                   !.thrown = TRUE,
                   !.trace = Append(@, "write_failed")]

TryLoad_RewriteBlank(a, io) ==
    IF a.file.kind = "missing" THEN [WriteEmpty(a, io) EXCEPT !.records = <<>>]
    ELSE IF a.file.kind \in {"empty", "blank"}
         THEN [WriteEmpty(a, io) EXCEPT !.records = <<>>]
    ELSE IF a.file.kind = "invalid"
         THEN [a EXCEPT !.thrown = TRUE, !.trace = Append(@, "parse_failed")]
    ELSE IF a.file.kind = "array" THEN [a EXCEPT !.records = a.file.recs]
    ELSE [a EXCEPT !.records = <<>>]

\* The try block of loadRecords; `thrown` tells that it ended in its catch.
TryLoad(a, io) ==
    IF a.file.kind = "missing" THEN [WriteEmpty(a, io) EXCEPT !.records = <<>>]
    ELSE IF a.file.kind \in {"empty", "blank"} THEN [a EXCEPT !.records = <<>>]
    ELSE IF a.file.kind = "invalid"
         THEN [a EXCEPT !.thrown = TRUE, !.trace = Append(@, "parse_failed")]
    ELSE IF a.file.kind = "array" THEN [a EXCEPT !.records = a.file.recs]
    ELSE [a EXCEPT !.records = <<>>]

\* loadRecords of src/src/store.js, the module index.js imports.
loadRecords(a, io) ==
    LET t == TryLoad(a, io)
    IN  IF t.thrown THEN [t EXCEPT !.thrown = FALSE, !.records = <<>>] ELSE t

\* The inner try block of the other loadRecords: rename, then write "[]";
\* what either throws is dropped.
Quarantine(a, renameIo, io) ==
    IF renameIo # "ok" THEN [a EXCEPT !.trace = Append(@, "rename_failed")]
    ELSE [WriteEmpty([a EXCEPT !.broken = @ \cup {a.file},
                               !.file = [kind |-> "missing", recs |-> <<>>],
                               !.trace = Append(@, "rename")], io)
            EXCEPT !.thrown = FALSE]

\* loadRecords of src/unnamed/part_000.
loadRecordsRenaming(a, io, renameIo, rewriteIo) ==
    LET t == TryLoad(a, io)
    IN  IF t.thrown
        THEN [Quarantine([t EXCEPT !.thrown = FALSE], renameIo, rewriteIo)
                EXCEPT !.records = <<>>]
        ELSE t

-----------------------------------------------------------------------------
(* src/src/index.js *)

Max(a, b) == IF a > b THEN a ELSE b

RECURSIVE MaxId(_)
MaxId(recs) == IF recs = <<>> THEN 0 ELSE Max(MaxId(Tail(recs)), Head(recs).id)

nextId_Length(recs) == Len(recs)

nextId_NoIncrement(recs) == MaxId(recs)

nextId(recs) == MaxId(recs) + 1

\* Array.prototype.find: the index of the first element satisfying P, or 0.
Find(recs, P(_)) ==
    LET S == {i \in 1..Len(recs) : P(recs[i])}
    IN  IF S = {} THEN 0 ELSE CHOOSE i \in S : \A j \in S : i <= j

SchemaKeys == {"driver__steamID64", "name", "car", "track", "layout",
               "condition", "weather", "timing", "ghostLength"}

\* leaderboardSchema.safeParse(body).success
safeParse(body) == SchemaKeys \subseteq DOMAIN body

keyMatch(r, p) ==
    /\ r.driver__steamID64 = p.driver__steamID64
    /\ StrictEq(r.track, p.track)
    /\ StrictEq(r.layout, p.layout)
    /\ StrictEq(r.condition, p.condition)
    /\ StrictEq(r.weather, p.weather)
    /\ StrictEq(r.car, p.car)

Start(op, req) ==
    [op |-> op, req |-> req, records |-> records, file |-> file, r2Bucket |-> r2Bucket,
     localDir |-> localDir, saveCalls |-> saveCalls, now |-> now,
     trace |-> <<>>, thrown |-> FALSE, done |-> FALSE, code |-> 0, status |-> "",
     locals |-> <<>>,
     computed |-> nullStr, provided |-> nullStr, storedAs |-> nullStr,
     where |-> "none", size |-> null, out |-> <<>>, broken |-> brokenFiles]

\* `return`/`reply.send`; an exception thrown earlier is answered with 500.
Reply(a, code, status) ==
    IF a.thrown THEN [a EXCEPT !.done = TRUE, !.code = 500, !.status = "error"]
    ELSE [a EXCEPT !.done = TRUE, !.code = code, !.status = status]

SubmitCreate(a, p) ==
    [a EXCEPT !.records = Append(@,
                  [ghostKey |-> nullStr, ghostPath |-> nullStr, sha256 |-> nullStr,
                   size |-> null, createdAt |-> a.now]
                  @@ p @@ [id |-> nextId(a.records)]),
              !.now = @ + 1,
              !.trace = Append(@, "push")]

SubmitImprove_DropGhost(a, i, p) ==
    [a EXCEPT !.records[i].timing = p.timing,
              !.records[i].ghostLength = p.ghostLength,
              !.records[i].name = p.name,
              !.records[i].createdAt = a.now,
              !.records[i].ghostKey = nullStr,
              !.records[i].ghostPath = nullStr,
              !.records[i].sha256 = nullStr,
              !.records[i].size = null,
              !.now = @ + 1,
              !.trace = Append(@, "update")]

SubmitImprove_KeepName(a, i, p) ==
    [a EXCEPT !.records[i].timing = p.timing,
              !.records[i].ghostLength = p.ghostLength,
              !.records[i].createdAt = a.now,
              !.now = @ + 1,
              !.trace = Append(@, "update")]

SubmitImprove(a, i, p) ==
    [a EXCEPT !.records[i].timing = p.timing,
              !.records[i].ghostLength = p.ghostLength,
              !.records[i].name = p.name,
              !.records[i].createdAt = a.now,
              !.now = @ + 1,
              !.trace = Append(@, "update")]

Improves_OrEqual(p, existing) == ~Less(existing.timing, p.timing)

Improves(p, existing) == Less(p.timing, existing.timing)

PostLeaderboard_SaveAlways(a, body, io) ==
    IF ~safeParse(body) THEN Reply(a, 400, "invalid")
    ELSE
        LET p == [k \in SchemaKeys |-> body[k]]
            match(r) == keyMatch(r, p)
            i == Find(a.records, match)
        IN  IF i = 0 THEN Reply(saveRecords(SubmitCreate(a, p), io), 200, "created")
            ELSE IF Improves(p, a.records[i])
                 THEN Reply(saveRecords(SubmitImprove(a, i, p), io), 200, "updated_best")
                 ELSE Reply(saveRecords(a, io), 200, "ignored_slower")

\* fastify.post("/leaderboard", ...)
PostLeaderboard(a, body, io) ==
    IF ~safeParse(body) THEN Reply(a, 400, "invalid")
    ELSE
        LET p == [k \in SchemaKeys |-> body[k]]
            match(r) == keyMatch(r, p)
            i == Find(a.records, match)
        IN  IF i = 0 THEN Reply(saveRecords(SubmitCreate(a, p), io), 200, "created")
            ELSE IF Improves(p, a.records[i])
                 THEN Reply(saveRecords(SubmitImprove(a, i, p), io), 200, "updated_best")
                 ELSE Reply(a, 200, "ignored_slower")

-----------------------------------------------------------------------------
(* POST /ghost *)

required == {"driver__steamID64", "name", "car", "track", "layout", "condition",
             "weather", "timing", "ghostLength", "sha256", "size"}

\* Lines 139-177: the multipart parts are read; a request without the file
\* part or without a required field is answered 400.
GhostParse(a, req) ==
    IF ~req.hasFile THEN Reply(a, 400, "missing_file")
    ELSE IF ~(required \subseteq DOMAIN req.fields) THEN Reply(a, 400, "missing_field")
    ELSE [a EXCEPT !.locals = [ghostBuffer |-> req.ghost, fields |-> req.fields]]

DigestMatches_Always(computed, provided) == TRUE

DigestMatches(computed, provided) == computed = provided

\* Lines 179-204: the digest check, then the handler's locals.
GhostVerify(a) ==
    IF a.done THEN a
    ELSE
        LET fields == a.locals.fields
            ghostBuffer == a.locals.ghostBuffer
            computed == Sha256Hex(ghostBuffer)
            provided == toLowerCase(fields.sha256)
            b == [a EXCEPT !.computed = computed, !.provided = provided,
                           !.trace = Append(@, "verify")]
        IN  IF ~DigestMatches(computed, provided) THEN Reply(b, 400, "sha256 mismatch")
            ELSE [b EXCEPT !.locals =
                    [ghostBuffer |-> ghostBuffer,
                     track |-> Number(fields.track),
                     layout |-> Number(fields.layout),
                     condition |-> Number(fields.condition),
                     weather |-> Number(fields.weather),
                     car |-> Number(fields.car),
                     timing |-> Number(fields.timing),
                     ghostLength |-> Number(fields.ghostLength),
                     size |-> Len(ghostBuffer),
                     steamId |-> fields.driver__steamID64,
                     name |-> fields.name,
                     provided |-> provided,
                     objectKey |-> <<"ghosts/">> \o provided \o <<".tsreplay">>,
                     storedWhere |-> "none",
                     localPath |-> nullStr]]

\* A blob store maps a key to a body; a write replaces the body.
Write(store, key, body) ==
    {o \in store : o.key # key} \cup {[key |-> key, body |-> body]}

S3Outcomes == {"ok", "rejected"}

\* A failed fs.writeFileSync of a blob leaves the file as it was (the open
\* failed) or leaves a prefix of the bytes.
BlobOutcomes == {"ok", "unchanged", "partial"}

\* Lines 206-221: the blob is written to R2, or to the local directory.
\* A failed write throws (a rejected send, a writeFileSync error).
GhostPut(a, io) ==
    IF a.done THEN a
    ELSE IF r2Enabled
    THEN IF io = "ok"
         THEN [a EXCEPT !.r2Bucket = Write(@, a.locals.objectKey, a.locals.ghostBuffer),
                        !.locals.storedWhere = "r2",
                        !.trace = Append(@, "put")]
         ELSE [a EXCEPT !.thrown = TRUE, !.trace = Append(@, "put_failed")]
    ELSE
        LET filename == a.locals.provided \o <<".tsreplay">>
            localPath == <<"data/ghosts/">> \o filename
            body == a.locals.ghostBuffer
        IN  CASE io = "ok" ->
                   [a EXCEPT !.localDir = Write(@, localPath, body),
                             !.locals.localPath = localPath,
                             !.locals.storedWhere = "local",
                             !.trace = Append(@, "put")]
              [] io = "unchanged" ->
                   [a EXCEPT !.thrown = TRUE, !.trace = Append(@, "put_failed")]
              [] io = "partial" ->
                   [a EXCEPT !.localDir = Write(@, localPath, SubSeq(body, 1, Len(body) - 1)),
                             !.thrown = TRUE, !.trace = Append(@, "put_failed")]

recMatch(r, g) ==
    /\ r.driver__steamID64 = g.steamId
    /\ StrictEq(r.track, g.track)
    /\ StrictEq(r.layout, g.layout)
    /\ StrictEq(r.condition, g.condition)
    /\ StrictEq(r.weather, g.weather)
    /\ StrictEq(r.car, g.car)

\* Lines 223-261: the record of the key is overwritten, or a record is pushed.
GhostAttach(a) ==
    IF a.done \/ a.thrown THEN a
    ELSE
        LET g == a.locals
            match(r) == recMatch(r, g)
            i == Find(a.records, match)
            ghostKey == IF g.storedWhere = "r2" THEN g.objectKey ELSE nullStr
            ghostPath == IF g.storedWhere = "local" THEN g.localPath ELSE nullStr
        IN  IF i # 0
            THEN [a EXCEPT !.records[i].sha256 = g.provided,
                           !.records[i].size = g.size,
                           !.records[i].timing = g.timing,
                           !.records[i].ghostLength = g.ghostLength,
                           !.records[i].name = g.name,
                           !.records[i].createdAt = a.now,
                           !.records[i].ghostKey = ghostKey,
                           !.records[i].ghostPath = ghostPath,
                           !.now = @ + 1,
                           !.trace = Append(@, "record")]
            ELSE [a EXCEPT !.records = Append(@,
                               [id |-> nextId(a.records),
                                driver__steamID64 |-> g.steamId,
                                name |-> g.name,
                                car |-> g.car,
                                track |-> g.track,
                                layout |-> g.layout,
                                condition |-> g.condition,
                                weather |-> g.weather,
                                timing |-> g.timing,
                                ghostLength |-> g.ghostLength,
                                ghostKey |-> ghostKey,
                                ghostPath |-> ghostPath,
                                sha256 |-> g.provided,
                                size |-> g.size,
                                createdAt |-> a.now]),
                           !.now = @ + 1,
                           !.trace = Append(@, "record")]

\* Line 263
GhostSave(a, io) == IF a.done \/ a.thrown THEN a ELSE saveRecords(a, io)

\* Lines 265-270; path.basename(localPath) is the file name.
GhostReturn(a) ==
    IF a.done THEN a
    ELSE LET g == a.locals
         IN  Reply([a EXCEPT !.storedAs = IF g.storedWhere = "r2" THEN g.objectKey
                                          ELSE g.provided \o <<".tsreplay">>,
                             !.where = g.storedWhere,
                             !.size = g.size],
                   200, "stored")

\* The handler up to its first reading of shared state (line 206).
GhostHead_AttachFirst(a, req) == GhostAttach(GhostVerify(GhostParse(a, req)))

GhostHead(a, req) == GhostVerify(GhostParse(a, req))

GhostTail_RecordFirst(a, putIo, saveIo) ==
    GhostReturn(GhostSave(GhostPut(GhostAttach(a), putIo), saveIo))

\* The handler from the blob write on.
GhostTail(a, putIo, saveIo) == GhostReturn(GhostSave(GhostAttach(GhostPut(a, putIo)), saveIo))

GhostReq(d, c, t, u) ==
    [hasFile |-> TRUE, ghost |-> u.ghost,
     fields |-> [driver__steamID64 |-> d, name |-> "n3", car |-> c.car,
                 track |-> c.track, layout |-> c.layout, condition |-> c.condition,
                 weather |-> c.weather, timing |-> t, ghostLength |-> <<"3", "0">>,
                 sha256 |-> u.sha256, size |-> <<"9">>]]

\* The numeric fields of an upload that are not numbers.
Malformed(c, t) == {k \in DOMAIN c : Number(c[k]) = NaN} \cup {k \in {"timing"} : Number(t) = NaN}

\* The uploads whose numeric fields are all numbers come from every driver
\* with every file; an upload with one field that is not a number comes from
\* driver "A" with the one-byte file.
GhostReqs ==
    {GhostReq(d, c, t, u) :
        d \in Drivers, u \in Uploads,
        c \in {x \in GhostCombos : Malformed(x, <<"2">>) = {}},
        t \in {x \in GhostTimings : Number(x) # NaN}}
    \cup {GhostReq("A", x[1], x[2], [ghost |-> <<10>>, sha256 |-> <<"B", "F">>]) :
            x \in {y \in GhostCombos \X GhostTimings :
                      Cardinality(Malformed(y[1], y[2])) = 1}}
    \cup {GhostReq("A", c, <<"2">>, Mismatched) : c \in GhostCombos}
    \cup {[hasFile |-> FALSE, ghost |-> <<>>, fields |-> [name |-> "n3"]],
          [hasFile |-> TRUE, ghost |-> <<10>>, fields |-> [name |-> "n3"]]}

-----------------------------------------------------------------------------
(* GET /getRecords and GET /ghost/bytes *)

CategoryFields == {"track", "layout", "condition", "weather", "car"}

\* Number(q.k ?? default): a query parameter arrives as a string.
Wanted(q, k, default) == IF k \in DOMAIN q THEN Number(q[k]) ELSE default

match_Exact(wanted, actual) == StrictEq(wanted, actual)

\* Line 354
match(wanted, actual) == IF StrictEq(wanted, -1) THEN TRUE ELSE StrictEq(wanted, actual)

\* The sign of a.timing - b.timing as Array.prototype.sort reads it: a NaN
\* difference counts as 0, and a null timing counts as the number 0.
SortCompare(a, b) ==
    LET x == IF a.timing = null THEN 0 ELSE a.timing
        y == IF b.timing = null THEN 0 ELSE b.timing
    IN  IF x = NaN \/ y = NaN THEN 0
        ELSE IF x < y THEN -1
        ELSE IF x > y THEN 1
        ELSE 0

\* The comparator orders the elements of the list consistently.
Consistent(list) ==
    LET C(i, j) == SortCompare(list[i], list[j])
    IN  \A i, j, k \in 1..Len(list) :
            /\ (C(i, j) = 0 /\ C(j, k) = 0) => C(i, k) = 0
            /\ (C(i, j) < 0 /\ C(j, k) = 0) => C(i, k) < 0
            /\ (C(i, j) = 0 /\ C(j, k) < 0) => C(i, k) < 0
            /\ (C(i, j) < 0 /\ C(j, k) < 0) => C(i, k) < 0

Insert(sorted, x) ==
    LET after == {i \in 1..Len(sorted) : SortCompare(x, sorted[i]) < 0}
        at == IF after = {} THEN Len(sorted) + 1
              ELSE CHOOSE i \in after : \A j \in after : i <= j
    IN  SubSeq(sorted, 1, at - 1) \o <<x>> \o SubSeq(sorted, at, Len(sorted))

RECURSIVE StableSort(_)
StableSort(list) ==
    IF list = <<>> THEN <<>>
    ELSE Insert(StableSort(SubSeq(list, 1, Len(list) - 1)), list[Len(list)])

\* What list.sort((a, b) => a.timing - b.timing) can leave in the list: the
\* stable ascending order; with a comparator that is not consistent the
\* order is implementation-defined, so any order of the elements.
Sorts(list) ==
    IF Consistent(list) THEN {StableSort(list)}
    ELSE {[i \in 1..Len(list) |-> list[pi[i]]] : pi \in Permutations(1..Len(list))}

\* Lines 356-363
GetRecordsFilter(recs, q) ==
    LET keep(r) == \A k \in CategoryFields : match(Wanted(q, k, -1), r[k])
    IN  SelectSeq(recs, keep)

\* Lines 367-377
Project(r) ==
    [id |-> r.id, driver__steamID64 |-> r.driver__steamID64, car |-> r.car,
     track |-> r.track, layout |-> r.layout, condition |-> r.condition,
     weather |-> r.weather, timing |-> r.timing, name |-> r.name]

GetRecords_SortStore(a, q, sorted) ==
    Reply([a EXCEPT !.records = StableSort(@),
                    !.out = [i \in 1..Len(sorted) |-> Project(sorted[i])]],
          200, "records")

\* fastify.get("/getRecords", ...); `sorted` is the list after list.sort.
GetRecords(a, q, sorted) ==
    Reply([a EXCEPT !.out = [i \in 1..Len(sorted) |-> Project(sorted[i])]],
          200, "records")

\* Lines 286-296
GhostBytesFilter(recs, q) ==
    LET keep(r) ==
            /\ \A k \in CategoryFields : StrictEq(r[k], Wanted(q, k, 0))
            /\ r.ghostKey # nullStr \/ r.ghostPath # nullStr
            /\ "steamid" \in DOMAIN q => r.driver__steamID64 = q.steamid
    IN  SelectSeq(recs, keep)

Bodies(store, key) == {o.body : o \in {x \in store : x.key = key}}

\* fastify.get("/ghost/bytes", ...); `sorted` is candidates after
\* candidates.sort, io the outcome of the GetObject send.
GetGhostBytes(a, q, sorted, io) ==
    IF sorted = <<>> THEN Reply(a, 404, "ghost not found")
    ELSE
        LET best == sorted[1]
        IN  IF best.ghostKey # nullStr /\ r2Enabled
            THEN IF io = "ok" /\ Bodies(a.r2Bucket, best.ghostKey) # {}
                 THEN Reply([a EXCEPT !.out =
                                CHOOSE b \in Bodies(a.r2Bucket, best.ghostKey) : TRUE],
                            200, "bytes")
                 ELSE Reply(a, 500, "failed to fetch ghost")
            ELSE IF best.ghostPath # nullStr /\ Bodies(a.localDir, best.ghostPath) # {}
                 THEN Reply([a EXCEPT !.out =
                                CHOOSE b \in Bodies(a.localDir, best.ghostPath) : TRUE],
                            200, "bytes")
                 ELSE Reply(a, 404, "ghost not found")

-----------------------------------------------------------------------------
(* Requests and the next-state relation *)

Body(d, c, x) ==
    [driver__steamID64 |-> d, name |-> x.name, car |-> c.car, track |-> c.track,
     layout |-> c.layout, condition |-> c.condition, weather |-> c.weather,
     timing |-> x.timing, ghostLength |-> x.ghostLength]

SubmitBodies ==
    {Body(d, c, x) : d \in Drivers, c \in Combos, x \in Candidates}
    \cup {[driver__steamID64 |-> "A", name |-> "n1"]}

Response(a) ==
    [op |-> a.op, req |-> a.req, code |-> a.code, status |-> a.status, trace |-> a.trace,
     computed |-> a.computed, provided |-> a.provided, storedAs |-> a.storedAs,
     where |-> a.where, size |-> a.size, out |-> a.out]

\* `last` after a step that completes no handler.
Idle == Response(Start("none", <<>>))

\* The handler's effects become the state; the reply becomes `last`.
Commit(a) ==
    /\ records' = a.records
    /\ file' = a.file
    /\ r2Bucket' = a.r2Bucket
    /\ localDir' = a.localDir
    /\ saveCalls' = a.saveCalls
    /\ now' = a.now
    /\ last' = Response(a)

\* What a suspended activation keeps: its locals, not the shared state.
Suspend(a) ==
    [req |-> a.req, locals |-> a.locals, trace |-> a.trace,
     computed |-> a.computed, provided |-> a.provided]

Resume(s) ==
    [Start("ghost", s.req) EXCEPT !.locals = s.locals, !.trace = s.trace,
                           !.computed = s.computed, !.provided = s.provided]

Accepting == booted /\ now + Cardinality(pending) < MaxClock

\* The outcome of a write is chosen only where the handler reaches the write.
Saves(a, io) == io = "ok" \/ "save" \in {a.trace[i] : i \in 1..Len(a.trace)}

Submit ==
    /\ Accepting
    /\ \E body \in SubmitBodies, io \in FileOutcomes :
          \E a \in {PostLeaderboard(Start("submit", body), body, io)} :
              Saves(a, io) /\ Commit(a)
    /\ UNCHANGED <<r2Enabled, pending, booted, brokenFiles>>

\* POST /ghost with the local backend: the handler runs without suspending.
GhostLocal ==
    /\ Accepting
    /\ ~r2Enabled
    /\ \E req \in GhostReqs :
          \E h \in {GhostHead(Start("ghost", req), req)} :
              IF h.done THEN Commit(h)
              ELSE \E putIo \in BlobOutcomes, saveIo \in FileOutcomes :
                      \E a \in {GhostTail(h, putIo, saveIo)} :
                          Saves(a, saveIo) /\ Commit(a)
    /\ UNCHANGED <<r2Enabled, pending, booted, brokenFiles>>

\* POST /ghost with R2: the handler runs up to `await s3.send(...)`.
GhostBegin ==
    /\ Accepting
    /\ r2Enabled
    /\ \E req \in GhostReqs :
          \E a \in {GhostHead(Start("ghost", req), req)} :
              IF a.done
              THEN Commit(a) /\ UNCHANGED <<r2Enabled, pending>>
              ELSE /\ pending' = pending \cup {Suspend(a)}
                   /\ last' = Idle
                   /\ records' = a.records
                   /\ file' = a.file
                   /\ r2Bucket' = a.r2Bucket
                   /\ localDir' = a.localDir
                   /\ now' = a.now
                   /\ saveCalls' = a.saveCalls
                   /\ UNCHANGED r2Enabled
    /\ UNCHANGED <<booted, brokenFiles>>

\* The send settles and the handler runs to its end.
GhostResume ==
    /\ \E s \in pending, putIo \in S3Outcomes, saveIo \in FileOutcomes :
          \E a \in {GhostTail(Resume(s), putIo, saveIo)} :
              /\ Saves(a, saveIo)
              /\ Commit(a)
              /\ pending' = pending \ {s}
    /\ UNCHANGED <<r2Enabled, booted, brokenFiles>>

Init ==
    /\ records = <<>>
    /\ file = [kind |-> "array", recs |-> <<>>]
    /\ r2Bucket = {}
    /\ localDir = {}
    /\ r2Enabled \in BOOLEAN
    /\ pending = {}
    /\ now = 0
    /\ saveCalls = 0
    /\ booted = TRUE
    /\ brokenFiles = {}
    /\ last = Idle

Next ==
    \/ Submit
    \/ GhostLocal
    \/ GhostBegin
    \/ GhostResume

Spec == Init /\ [][Next]_vars

-----------------------------------------------------------------------------
(* The server with its two read routes *)

\* The query strings of GET /getRecords: no filter, the wild card, one
\* filter, two filters.
Queries ==
    { <<>>,
      [track |-> <<"-", "1">>],
      [track |-> <<"2">>],
      [track |-> <<"1">>, car |-> <<"1">>, weather |-> <<"-", "1">>] }

\* The query strings of GET /ghost/bytes: every category given, with and
\* without a driver, and the track alone.
GhostQueries ==
    { [car |-> <<"1">>, track |-> <<"2">>, layout |-> <<"0">>, condition |-> <<"0">>,
       weather |-> <<"0">>],
      [car |-> <<"1">>, track |-> <<"2">>, layout |-> <<"0">>, condition |-> <<"0">>,
       weather |-> <<"0">>, steamid |-> "B"],
      [track |-> <<"2">>] }

\* GET /getRecords
List ==
    /\ booted
    /\ \E q \in Queries :
          \E sorted \in Sorts(GetRecordsFilter(records, q)) :
              \E a \in {GetRecords(Start("getRecords", q), q, sorted)} : Commit(a)
    /\ UNCHANGED <<r2Enabled, pending, booted, brokenFiles>>

\* GET /ghost/bytes
Fetch ==
    /\ booted
    /\ \E q \in GhostQueries, io \in S3Outcomes :
          \E sorted \in Sorts(GhostBytesFilter(records, q)) :
              \E a \in {GetGhostBytes(Start("ghostBytes", q), q, sorted, io)} : Commit(a)
    /\ UNCHANGED <<r2Enabled, pending, booted, brokenFiles>>

\* The last step completed a read route.
Answered == last.op \in {"getRecords", "ghostBytes"}

\* A read is the last request of a behaviour.
QueryNext ==
    /\ ~Answered
    /\ \/ Next
       \/ List
       \/ Fetch

QuerySpec == Init /\ [][QueryNext]_vars

-----------------------------------------------------------------------------
(* Startup: the evaluation of store.js over what the data directory holds *)

\* A record an earlier run of the server created and saved.
Saved ==
    [id |-> 1, driver__steamID64 |-> "B", name |-> "n1", car |-> 1, track |-> 2,
     layout |-> 0, condition |-> 0, weather |-> 0, timing |-> 2, ghostLength |-> 10,
     ghostKey |-> nullStr, ghostPath |-> nullStr, sha256 |-> nullStr, size |-> null,
     createdAt |-> -1]

BootFiles ==
    { [kind |-> k, recs |-> <<>>] :
        k \in {"missing", "empty", "blank", "object", "invalid", "array"} }
    \cup { [kind |-> k, recs |-> <<Saved>>] : k \in {"invalid", "array"} }

\* `export const records = loadRecords()` of src/src/store.js
Load ==
    /\ ~booted
    /\ \E io \in FileOutcomes :
          \E a \in {loadRecords(Start("load", file), io)} :
              /\ Commit(a)
              /\ brokenFiles' = a.broken
    /\ booted' = TRUE
    /\ UNCHANGED <<r2Enabled, pending>>

\* `export const records = loadRecords()` of src/unnamed/part_000
LoadRenaming ==
    /\ ~booted
    /\ \E io \in FileOutcomes, renameIo \in RenameOutcomes, rewriteIo \in FileOutcomes :
          \E a \in {loadRecordsRenaming(Start("load", file), io, renameIo, rewriteIo)} :
              /\ Commit(a)
              /\ brokenFiles' = a.broken
    /\ booted' = TRUE
    /\ UNCHANGED <<r2Enabled, pending>>

BootInit ==
    /\ records = <<>>
    /\ file \in BootFiles
    /\ r2Bucket = {}
    /\ localDir = {}
    /\ r2Enabled \in BOOLEAN
    /\ pending = {}
    /\ now = 0
    /\ saveCalls = 0
    /\ booted = FALSE
    /\ brokenFiles = {}
    /\ last = Idle

BootNext ==
    \/ Load
    \/ LoadRenaming
    \/ Submit

BootSpec == BootInit /\ [][BootNext]_vars

\* The server restarted over the document an earlier run saved: the state
\* after loadRecords has parsed it.
RestartInit ==
    /\ records = <<Saved>>
    /\ file = [kind |-> "array", recs |-> <<Saved>>]
    /\ r2Bucket = {}
    /\ localDir = {}
    /\ r2Enabled \in BOOLEAN
    /\ pending = {}
    /\ now = 0
    /\ saveCalls = 0
    /\ booted = TRUE
    /\ brokenFiles = {}
    /\ last = Idle

RestartSpec == RestartInit /\ [][QueryNext]_vars

-----------------------------------------------------------------------------
(* Properties *)

KeyOf(r) == <<r.driver__steamID64, r.car, r.track, r.layout, r.condition, r.weather>>

Ids(recs) == {recs[i].id : i \in 1..Len(recs)}

Greatest(S) == CHOOSE m \in S : \A x \in S : x <= m

Events(t) == {t[i] : i \in 1..Len(t)}

\* The step completed a POST /leaderboard whose body passed the schema.
Submitted == last'.op = "submit" /\ SchemaKeys \subseteq DOMAIN last'.req

\* The step completed a POST /ghost that carried the file and every field.
Uploaded ==
    /\ last'.op = "ghost"
    /\ last'.req.hasFile
    /\ required \subseteq DOMAIN last'.req.fields

\* C1: the collection holds at most one record per
\* (driverId, car, track, layout, condition, weather) tuple.
C1_OneRecordPerKey ==
    \A i, j \in 1..Len(records) : KeyOf(records[i]) = KeyOf(records[j]) => i = j

\* C2: whenever an operation changes a record's timing, the new timing is
\* strictly smaller than the old one.
C2_TimingOnlyDecreases ==
    [][\A i \in 1..Len(records) :
          records'[i].timing # records[i].timing
              => records'[i].timing < records[i].timing]_vars

\* C3: an upload whose bytes do not hash to the declared digest (compared in
\* lower case) is answered 400 "sha256 mismatch" with both digests, and the
\* step writes no blob, changes no record and does not save; so an upload is
\* stored only if the digests agree.
C3_MismatchRejectedBeforeAnyWrite ==
    [][(Uploaded /\ Sha256Hex(last'.req.ghost) # toLowerCase(last'.req.fields.sha256))
          => /\ last'.code = 400
             /\ last'.status = "sha256 mismatch"
             /\ last'.computed = Sha256Hex(last'.req.ghost)
             /\ last'.provided = toLowerCase(last'.req.fields.sha256)
             /\ "save" \notin Events(last'.trace)
             /\ UNCHANGED <<records, file, r2Bucket, localDir, saveCalls>>]_vars

C3_Witness ==
    /\ last.op = "ghost"
    /\ last.status = "sha256 mismatch"
    /\ last.computed # last.provided
    /\ records # <<>>

\* C4: a submit for a key that has a record, with a timing not below the
\* record's, is answered ignored_slower and leaves the record's timing, name
\* and createdAt as they were.
C4_SlowerSubmitIgnored ==
    [][\A i \in 1..Len(records) :
          (/\ Submitted
           /\ KeyOf(records[i]) = KeyOf(last'.req)
           /\ last'.req.timing >= records[i].timing)
              => /\ last'.status = "ignored_slower"
                 /\ records'[i].timing = records[i].timing
                 /\ records'[i].name = records[i].name
                 /\ records'[i].createdAt = records[i].createdAt]_vars

C4_Witness ==
    /\ last.op = "submit"
    /\ last.status = "ignored_slower"
    /\ \E i \in 1..Len(records) :
          /\ KeyOf(records[i]) = KeyOf(last.req)
          /\ last.req.timing > records[i].timing
          /\ last.req.name # records[i].name
          /\ records[i].createdAt < now

\* C5: a submit for a key that has a record, with a timing below the
\* record's, sets the record's timing, ghostLength and name to the submitted
\* values and its createdAt to the time of the call, keeps its id, adds no
\* record, and is answered updated_best (500 if the save that follows throws).
C5_FasterSubmitUpdates ==
    [][\A i \in 1..Len(records) :
          (/\ Submitted
           /\ KeyOf(records[i]) = KeyOf(last'.req)
           /\ last'.req.timing < records[i].timing)
              => /\ records'[i].timing = last'.req.timing
                 /\ records'[i].ghostLength = last'.req.ghostLength
                 /\ records'[i].name = last'.req.name
                 /\ records'[i].createdAt = now
                 /\ records'[i].id = records[i].id
                 /\ Len(records') = Len(records)
                 /\ \/ last'.status = "updated_best"
                    \/ last'.code = 500 /\ file'.kind = "invalid"]_vars

C5_Witness ==
    /\ last.op = "submit"
    /\ last.status = "updated_best"
    /\ \E i \in 1..Len(records) :
          /\ KeyOf(records[i]) = KeyOf(last.req)
          /\ records[i].timing = last.req.timing
          /\ records[i].name = last.req.name
          /\ records[i].createdAt = now - 1

\* C6: a submit for a key that has no record appends exactly one record,
\* with null ghostKey, ghostPath, sha256 and size and with the id one above
\* the greatest id of the collection (1 when it is empty), and is answered
\* created (500 if the save that follows throws).
C6_FirstSubmitCreates ==
    [][(/\ Submitted
        /\ \A i \in 1..Len(records) : KeyOf(records[i]) # KeyOf(last'.req))
          => /\ Len(records') = Len(records) + 1
             /\ SubSeq(records', 1, Len(records)) = records
             /\ LET r == records'[Len(records')]
                IN  /\ KeyOf(r) = KeyOf(last'.req)
                    /\ r.timing = last'.req.timing
                    /\ r.ghostKey = nullStr /\ r.ghostPath = nullStr
                    /\ r.sha256 = nullStr /\ r.size = null
                    /\ r.id = Greatest(Ids(records) \cup {0}) + 1
             /\ \/ last'.status = "created"
                \/ last'.code = 500 /\ file'.kind = "invalid"]_vars

C6_Witness ==
    /\ last.op = "submit"
    /\ last.status = "created"
    /\ Len(records) = 2
    /\ records[1].id = 1
    /\ records[2].id = 2
    /\ records[2].sha256 = nullStr

\* C7: the ids of the collection are pairwise distinct in every state, and
\* no step changes the id of a record or gives a new record an id that a
\* record already had.
C7_IdsUniqueNeverReused ==
    /\ [](\A i, j \in 1..Len(records) : records[i].id = records[j].id => i = j)
    /\ [][/\ Len(records') >= Len(records)
          /\ \A i \in 1..Len(records) : records'[i].id = records[i].id
          /\ \A j \in (Len(records) + 1)..Len(records') :
                records'[j].id \notin Ids(records)]_vars

C7_Witness ==
    /\ Len(records) >= 2
    /\ \E i, j \in 1..Len(records) :
          /\ records[i].sha256 = nullStr
          /\ records[j].sha256 # nullStr
          /\ records[i].id # records[j].id

\* C8: an upload runs verify, blob write, record update, save in this order;
\* a step whose blob write fails changes no record and saves nothing, and a
\* step that changes a record has stored the uploaded bytes.
C8_GhostOrdering ==
    [][last'.op = "ghost"
          => /\ last'.trace \in {<<>>, <<"verify">>, <<"verify", "put_failed">>,
                                 <<"verify", "put", "record", "save">>}
             /\ "put" \notin Events(last'.trace)
                  => UNCHANGED <<records, file, saveCalls>>
             /\ records' # records
                  => \E o \in r2Bucket' \cup localDir' : o.body = last'.req.ghost]_vars

C8_Witness ==
    /\ last.op = "ghost"
    /\ last.trace = <<"verify", "put_failed">>
    /\ last.code = 500
    /\ records # <<>>

\* C9: a submit answered created or updated_best has called saveRecords
\* exactly once, after changing the collection (the file holds the changed
\* collection); a submit answered ignored_slower has not called it.
C9_SaveOncePerMutatingSubmit ==
    [][last'.op = "submit"
          => /\ last'.status \in {"created", "updated_best"}
                  => /\ saveCalls' = saveCalls + 1
                     /\ records' # records
                     /\ last'.trace \in {<<"push", "save">>, <<"update", "save">>}
                     /\ file' = [kind |-> "array", recs |-> JSONstringify(records')]
             /\ last'.status = "ignored_slower"
                  => /\ saveCalls' = saveCalls
                     /\ file' = file
                     /\ "save" \notin Events(last'.trace)]_vars

C9_Witness ==
    /\ last.op = "submit"
    /\ last.status = "updated_best"
    /\ saveCalls = 2
    /\ file.kind = "array"
    /\ file.recs = records

\* C10: a step in which saveRecords fails is answered 500, never created,
\* updated_best or the upload's success reply.
C10_SaveFailureSurfaced ==
    [][(saveCalls' = saveCalls + 1 /\ file'.kind = "invalid")
          => /\ last'.code = 500
             /\ last'.status = "error"]_vars

C10_Witness ==
    /\ last.op = "ghost"
    /\ last.code = 500
    /\ last.trace = <<"verify", "put", "record", "save">>
    /\ file.kind = "invalid"

\* The step evaluated store.js: `records = loadRecords()` ran.
Loaded == ~booted /\ booted'

\* C11: loading a records file whose text is not valid JSON does not raise
\* and yields the empty collection; unless the rename or a write failed, the
\* text is kept under a recovery name and a fresh empty document takes its
\* place; no later step removes what was kept.
C11_BrokenFileKept ==
    [][ /\ (Loaded /\ file.kind = "invalid") =>
            /\ records' = <<>>
            /\ \/ Events(last'.trace) \cap {"rename_failed", "write_failed"} # {}
               \/ file \in brokenFiles' /\ file' = EmptyDocument
        /\ brokenFiles \subseteq brokenFiles' ]_vars

\* C12: loading a missing file, an empty or white-space file, or a file that
\* holds a JSON value other than an array yields the empty collection; the
\* file is written only when it was missing (an empty document, unless that
\* write failed), and otherwise stays as it was.
C12_LoadOfNoRecords ==
    [][ (Loaded /\ file.kind \in {"missing", "empty", "blank", "object"}) =>
            /\ records' = <<>>
            /\ file.kind # "missing" =>
                    /\ file' = file
                    /\ brokenFiles' = brokenFiles
                    /\ last'.trace = <<>>
            /\ file.kind = "missing" =>
                    \/ file' = EmptyDocument /\ "write" \in Events(last'.trace)
                    \/ "write_failed" \in Events(last'.trace) ]_vars

C12_Witness ==
    /\ booted
    /\ last.op = "load"
    /\ last.req.kind = "blank"
    /\ records = <<>>
    /\ file = last.req
    /\ saveCalls = 0

\* a <= b on numbers
LessEq(a, b) == a # NaN /\ b # NaN /\ a <= b

\* The place of the record with this id in the collection.
Position(recs, id) == CHOOSE i \in 1..Len(recs) : recs[i].id = id

\* The category filters of a query that are given and are not -1.
Given(q) == {k \in CategoryFields \cap DOMAIN q : Number(q[k]) # -1}

\* The record equals the query on every given filter.
Fits(r, q) == \A k \in Given(q) : r[k] = Number(q[k])

\* C13: the records GET /getRecords returns are in non-decreasing order of
\* timing (stated of every two records whose timings are numbers), and
\* records of equal timing are in their order of insertion.
C13_ListSortedByTiming ==
    [][ last'.op = "getRecords" =>
            \A i, j \in 1..Len(last'.out) :
                (i < j /\ last'.out[i].timing # NaN /\ last'.out[j].timing # NaN) =>
                    /\ last'.out[i].timing <= last'.out[j].timing
                    /\ last'.out[i].timing = last'.out[j].timing =>
                            Position(records, last'.out[i].id)
                                < Position(records, last'.out[j].id) ]_vars

\* C14: GET /getRecords returns exactly the records that equal the query on
\* every category filter that is given and is not -1, each once; a filter of
\* -1 is as a filter left out.
C14_ListFilters ==
    [][ last'.op = "getRecords" =>
            LET fit == {i \in 1..Len(records) : Fits(records[i], last'.req)}
            IN  /\ {last'.out[i].id : i \in 1..Len(last'.out)}
                       = {records[i].id : i \in fit}
                /\ Len(last'.out) = Cardinality(fit) ]_vars

C14_Witness ==
    /\ last.op = "getRecords"
    /\ last.req = [track |-> <<"1">>, car |-> <<"1">>, weather |-> <<"-", "1">>]
    /\ Len(records) = 2
    /\ Len(last.out) = 1
    /\ last.out[1].track = 1

\* C15: GET /ghost/bytes filters as GET /getRecords does (a filter left out
\* or -1 matches any value), also by driver when one is given, and only
\* records that have a blob locator; unless the fetch from the bucket
\* failed, it answers with the blob of a record of least timing among
\* those, and with 404 only when there is none.
C15_BestGhostOfFilter ==
    [][ last'.op = "ghostBytes" =>
            LET q == last'.req
                qualifies(r) ==
                    /\ Fits(r, q)
                    /\ "steamid" \in DOMAIN q => r.driver__steamID64 = q.steamid
                    /\ r.ghostKey # nullStr \/ r.ghostPath # nullStr
                Q == {i \in 1..Len(records) : qualifies(records[i])}
            IN  \/ last'.code = 500
                \/ Q = {} /\ last'.code = 404
                \/ /\ last'.code = 200
                   /\ \E i \in Q :
                        /\ \A j \in Q : LessEq(records[i].timing, records[j].timing)
                        /\ last'.out \in Bodies(r2Bucket, records[i].ghostKey)
                                          \cup Bodies(localDir, records[i].ghostPath) ]_vars

\* The key a completed POST /leaderboard or POST /ghost looked up.
ReqKey(resp) ==
    IF resp.op = "submit"
    THEN [k \in {"driver__steamID64"} \cup CategoryFields |-> resp.req[k]]
    ELSE [k \in {"driver__steamID64"} \cup CategoryFields |->
            IF k = "driver__steamID64" THEN resp.req.fields[k]
            ELSE Number(resp.req.fields[k])]

\* C16: with handlers interleaving at their await points, the lookup, the id
\* allocation, the insert or update and the save of a mutating request are
\* one step: a suspended handler has not yet touched the store, and a step
\* that changes the collection is the whole mutation of one request, made
\* on the collection as it is at that step and saved in that step.
C16_MutationAtomic ==
    [][ /\ \A s \in pending' : Events(s.trace) \subseteq {"verify"}
        /\ records' # records =>
            /\ last'.op \in {"submit", "ghost"}
            /\ saveCalls' = saveCalls + 1
            /\ \A key \in {ReqKey(last')} :
                 \A i \in {Find(records, LAMBDA r : keyMatch(r, key))} :
                   IF i = 0
                   THEN /\ Len(records') = Len(records) + 1
                        /\ SubSeq(records', 1, Len(records)) = records
                        /\ records'[Len(records')].id = nextId(records)
                        /\ keyMatch(records'[Len(records')], key)
                           \/ \E k \in CategoryFields : key[k] = NaN
                   ELSE /\ Len(records') = Len(records)
                        /\ \A j \in 1..Len(records) : j # i => records'[j] = records[j]
                        /\ records'[i].id = records[i].id ]_vars

\* A POST /leaderboard created the record of a key while a POST /ghost for
\* the same key was suspended at its await.
C16_Witness ==
    /\ last.op = "submit"
    /\ last.status = "created"
    /\ \E s \in pending :
          /\ s.locals.steamId = last.req.driver__steamID64
          /\ \A k \in CategoryFields : StrictEq(s.locals[k], last.req[k])

\* C17: of every record, a digest is present exactly when a locator is; at
\* most one of ghostKey and ghostPath is present; and when the digest is
\* present, the blob at the locator exists, hashes to the digest and has the
\* recorded size.
C17_BlobReference ==
    \A i \in 1..Len(records) :
        LET r == records[i]
        IN  /\ r.sha256 # nullStr <=> (r.ghostKey # nullStr \/ r.ghostPath # nullStr)
            /\ r.ghostKey = nullStr \/ r.ghostPath = nullStr
            /\ r.sha256 # nullStr =>
                    \E b \in Bodies(r2Bucket, r.ghostKey) \cup Bodies(localDir, r.ghostPath) :
                        /\ Sha256Hex(b) = r.sha256
                        /\ Len(b) = r.size

\* C18: a mutating request whose save fails leaves the collection as it was
\* before the request.
C18_FailedSaveLeavesCollection ==
    [][ (last'.op \in {"submit", "ghost"} /\ saveCalls' = saveCalls + 1
            /\ last'.code = 500) =>
        records' = records ]_vars

\* The blob fields of a record.
BlobFields(r) == <<r.ghostKey, r.ghostPath, r.sha256, r.size>>

\* C19: no POST /leaderboard changes the blob fields of a record: a record it
\* creates has them null, a record it updates or ignores keeps them; only a
\* POST /ghost sets or changes them.
C19_SubmitKeepsBlobFields ==
    [][ /\ Len(records') >= Len(records)
        /\ \A i \in 1..Len(records') :
              LET before == IF i <= Len(records) THEN BlobFields(records[i])
                            ELSE <<nullStr, nullStr, nullStr, null>>
              IN  BlobFields(records'[i]) # before => last'.op = "ghost" ]_vars

C19_Witness ==
    /\ last.op = "submit"
    /\ last.status = "updated_best"
    /\ \E i \in 1..Len(records) :
          /\ keyMatch(records[i], last.req)
          /\ records[i].timing = last.req.timing
          /\ records[i].sha256 # nullStr
          /\ records[i].ghostKey # nullStr \/ records[i].ghostPath # nullStr

\* C20: GET /getRecords and GET /ghost/bytes change nothing of the store:
\* the collection holds the same records with the same values in the same
\* order, the file and the blobs are as before, and saveRecords is not called.
C20_ReadsChangeNothing ==
    [][ last'.op \in {"getRecords", "ghostBytes"} =>
            /\ records' = records
            /\ file' = file
            /\ saveCalls' = saveCalls
            /\ r2Bucket' = r2Bucket
            /\ localDir' = localDir
            /\ brokenFiles' = brokenFiles ]_vars

\* GET /getRecords returned the two records of the collection in the order
\* of their timings, the reverse of their order in the collection.
C20_Witness ==
    /\ last.op = "getRecords"
    /\ Len(records) = 2
    /\ Len(last.out) = 2
    /\ last.out[1].id = records[2].id
    /\ last.out[2].id = records[1].id
    /\ records[2].timing < records[1].timing
    /\ records[2].timing # NaN
====
